---------------------------- MODULE Spec2Model ----------------------------
(***************************************************************************)
(* A model of CameraModule (src/js/camera.js): the two parsers, the proxy  *)
(* fetch, the pending-request table and the two caches; of App             *)
(* (src/js/app.js): the debounced loading of the cameras in view; and of   *)
(* UIModule (src/js/app.js): the camera dialog and its refresh timer.      *)
(*                                                                         *)
(* JavaScript runs the page on one thread.  Every action below is one      *)
(* synchronous run of code between two suspension points (an await, a      *)
(* timer, an event), so the states of the model are the states in which    *)
(* other tasks can observe the program's variables.                        *)
(*                                                                         *)
(* Text is modelled as a sequence of tokens (<< >> is the empty string '').*)
(* Numbers are integers counting units of 10^-Decimals.                    *)
(***************************************************************************)
EXTENDS Integers, Sequences, FiniteSets, TLC

(***************************************************************************)
(* Bounds of the model.                                                    *)
(***************************************************************************)
\* How many calls of the public operations a behaviour contains.
MaxCalls == 3
\* How many proxy fetches (promises created) a behaviour contains.
MaxTasks == 2
\* Numbers are represented in units of 10^-Decimals.
Decimals == 5
\* How many times a behaviour of App starts loading the cameras in view.
MaxLoads == 2
\* How many cleanup timeouts of closeCameraDialog can be waiting at once.
MaxCleanups == 2

(***************************************************************************)
(* Program constants.                                                      *)
(***************************************************************************)
TWIPCAM_BASE == "https://www.twipcam.com"
SNAPSHOT_BASE == "https://c01.twipcam.com/cam/snapshot/"
\* toFixed(4) in the list key.
KeyDecimals == 4
\* App: the zoom of the map at start, the least zoom at which cameras are
\* loaded, and the size of a batch of detail lookups.
DEFAULT_ZOOM == 15
MinZoom == 13
batchSize == 4
\* The labels of the coordinate lines of a detail page, and the phrase the
\* heading carries after the name (written in pinyin here).
LatLabel == "weidu:"
LonLabel == "jingdu:"
TitleSuffix == "jishi-yingxiang"

RECURSIVE Pow10(_)
Pow10(n) == IF n = 0 THEN 1 ELSE 10 * Pow10(n - 1)

(***************************************************************************)
(* JavaScript values.                                                      *)
(***************************************************************************)
Null == [k |-> "null"]
Undefined == [k |-> "undefined"]
NaN == [k |-> "NaN"]
Num(n) == [k |-> "num", v |-> n]

\* ToBoolean of a number-or-null: null, undefined, NaN and 0 are falsy.
Truthy(x) == x.k = "num" /\ x.v # 0
\* ToBoolean of a string: only '' is falsy.
NonEmpty(s) == s # << >>
\* a || b on strings.
OrElse(a, b) == IF NonEmpty(a) THEN a ELSE b

(***************************************************************************)
(* Maps (JavaScript Map objects).                                          *)
(***************************************************************************)
EmptyMap == << >>
MapHas(m, k) == k \in DOMAIN m
MapSet(m, k, v) == [x \in (DOMAIN m) \cup {k} |-> IF x = k THEN v ELSE m[x]]
MapDelete(m, k) == [x \in (DOMAIN m) \ {k} |-> m[x]]
\* m.get(k): undefined for an absent key.
MapGet(m, k) == IF MapHas(m, k) THEN m[k] ELSE Undefined
\* ToBoolean of a value that is an object, null or undefined: the values
\* of the maps are objects, and every object is truthy.
IsObject(x) == "id" \in DOMAIN x

(***************************************************************************)
(* parseFloat on a text of digits and dots (all that the detail parser's   *)
(* pattern [\d.]+ can capture): the longest prefix of the form digits,     *)
(* digits '.' digits or '.' digits; NaN when that prefix holds no digit.   *)
(***************************************************************************)
DigitChars == {"0", "1", "2", "3", "4", "5", "6", "7", "8", "9"}
DigitOf == ("0" :> 0) @@ ("1" :> 1) @@ ("2" :> 2) @@ ("3" :> 3) @@ ("4" :> 4)
           @@ ("5" :> 5) @@ ("6" :> 6) @@ ("7" :> 7) @@ ("8" :> 8) @@ ("9" :> 9)

\* The length of the run of characters of set cs that starts at s[i].
RECURSIVE RunLen(_, _, _)
RunLen(s, i, cs) ==
  IF i <= Len(s) /\ s[i] \in cs THEN 1 + RunLen(s, i + 1, cs) ELSE 0

\* The integer a digit string denotes.
RECURSIVE DigitsValue(_)
DigitsValue(ds) ==
  IF ds = << >> THEN 0
  ELSE 10 * DigitsValue(SubSeq(ds, 1, Len(ds) - 1)) + DigitOf[ds[Len(ds)]]

parseFloat(s) ==
  LET ni == RunLen(s, 1, DigitChars)
      dot == ni + 1 <= Len(s) /\ s[ni + 1] = "."
      nf == IF dot THEN RunLen(s, ni + 2, DigitChars) ELSE 0
      kept == IF nf > Decimals THEN Decimals ELSE nf
      ip == DigitsValue(SubSeq(s, 1, ni))
      fp == DigitsValue(SubSeq(s, ni + 2, ni + 1 + kept))
  IN  IF ni = 0 /\ nf = 0 THEN NaN
      ELSE Num(ip * Pow10(Decimals) + fp * Pow10(Decimals - kept))


(***************************************************************************)
(* Text helpers.                                                           *)
(***************************************************************************)
Whitespace == {" "}

\* String.prototype.trim: leading and trailing whitespace removed.
RECURSIVE TrimRight(_)
TrimRight(s) ==
  IF s # << >> /\ s[Len(s)] \in Whitespace
    THEN TrimRight(SubSeq(s, 1, Len(s) - 1)) ELSE s

Trim(s) ==
  LET lead == RunLen(s, 1, Whitespace)
  IN  TrimRight(SubSeq(s, lead + 1, Len(s)))

\* The position of the first occurrence of token t in s at or after i, 0 if none.
RECURSIVE IndexFrom(_, _, _)
IndexFrom(s, t, i) ==
  IF i > Len(s) THEN 0 ELSE IF s[i] = t THEN i ELSE IndexFrom(s, t, i + 1)

\* s.replace(t, ''): the first occurrence of t removed.
ReplaceFirst(s, t) ==
  LET i == IndexFrom(s, t, 1)
  IN  IF i = 0 THEN s ELSE SubSeq(s, 1, i - 1) \o SubSeq(s, i + 1, Len(s))

\* The tokens of s joined into one string.
RECURSIVE Join(_)
Join(s) == IF s = << >> THEN "" ELSE Head(s) \o Join(Tail(s))

(***************************************************************************)
(* parseCameraListHTML.  A list page is the sequence of its                *)
(* .cam-list-container elements in document order; each holds its link     *)
(* elements (their href texts), its images (src and data-src) and its      *)
(* caption elements (their texts).  An absent attribute and an empty one   *)
(* are both << >>: the code reads every attribute through  || ''  or       *)
(*  || fallback, which treats them alike.                                  *)
(***************************************************************************)
CamPath == "/cam/"

\* href.match(/\/cam\/(.+)$/): the text after the first "/cam/" that has text
\* after it, << >> when there is no match.
CamIdMatch(href) ==
  LET i == IndexFrom(href, CamPath, 1)
  IN  IF i = 0 \/ i = Len(href) THEN << >> ELSE SubSeq(href, i + 1, Len(href))

SnapshotFile(camId) == <<SNAPSHOT_BASE, camId, ".jpg">>

\* One container: a one-element sequence holding its summary, or << >> when
\* the container is skipped.
ParseContainer(c) ==
  IF c.links = << >> \/ c.imgs = << >> THEN << >>
  ELSE LET href == c.links[1]
           img == c.imgs[1]
           m == CamIdMatch(href)
       IN  IF m = << >> THEN << >>
           ELSE LET camId == Join(m)
                IN  << [id |-> camId,
                        name |-> IF c.descs # << >> THEN Trim(c.descs[1])
                                 ELSE <<camId>>,
                        snapshotUrl |-> OrElse(img.src, SnapshotFile(camId)),
                        liveFeedUrl |-> img.dataSrc] >>

RECURSIVE parseCameraListHTML(_)
parseCameraListHTML(html) ==
  IF html = << >> THEN << >>
  ELSE parseCameraListHTML(SubSeq(html, 1, Len(html) - 1))
         \o ParseContainer(html[Len(html)])

(***************************************************************************)
(* parseCameraDetailHTML.  A detail page holds its div elements in         *)
(* document order (each as its trimmed text), its h1 elements and its      *)
(* .video_obj elements (each as its data-src).                             *)
(***************************************************************************)
\* text.match(/^<label>\s*([\d.]+)/): the captured text, << >> when there is
\* no match.
LabelMatch(text, label) ==
  IF text = << >> \/ text[1] # label THEN << >>
  ELSE LET ws == RunLen(text, 2, Whitespace)
           n == RunLen(text, 2 + ws, DigitChars \cup {"."})
       IN  SubSeq(text, 2 + ws, 1 + ws + n)

\* The forEach over the divs: every matching div assigns the variable.
RECURSIVE ScanDivs(_, _)
ScanDivs(divs, label) ==
  IF divs = << >> THEN Null
  ELSE LET m == LabelMatch(divs[Len(divs)], label)
       IN  IF m # << >> THEN parseFloat(m)
           ELSE ScanDivs(SubSeq(divs, 1, Len(divs) - 1), label)

parseCameraDetailHTML(html) ==
  [lat |-> ScanDivs(html.divs, LatLabel),
   lon |-> ScanDivs(html.divs, LonLabel),
   name |-> IF html.h1s # << >>
              THEN Trim(ReplaceFirst(html.h1s[1], TitleSuffix)) ELSE << >>,
   liveFeedUrl |-> IF html.videos # << >> THEN html.videos[1] ELSE << >>]

(***************************************************************************)
(* The inputs the model draws from.                                        *)
(***************************************************************************)
\* Camera ids asked for by callers of the detail operation (the list pages
\* below also name B2 and C3).
CamIds == {"A1"}
\* The ids getCachedCamera is asked for.
LookupIds == CamIds

\* Coordinates (lat, lon) passed to the list operation, in units of
\* 10^-5 degree: the first two round to the same 4-decimal key, the third
\* differs from them in the fourth decimal.
Coordinates == {<<2262730, 12030140>>, <<2262734, 12030140>>,
                <<2262736, 12030140>>}

\* The coordinates of the list calls made next to calls of getCachedCamera:
\* two with different keys.
LookupCoordinates == {<<2262730, 12030140>>, <<2262736, 12030140>>}

\* HTTP status codes of the relay's answers.
HttpStatuses == {200, 500}

\* List pages the relay may answer with.
ListPageA ==
  << [links |-> << <<CamPath, "A1">> >>,
      imgs |-> << [src |-> <<"s1.jpg">>, dataSrc |-> << >>] >>,
      descs |-> << <<" ", "Cam", " ", "One", " ">> >>],
     [links |-> << <<CamPath, "B2">> >>,
      imgs |-> << [src |-> << >>, dataSrc |-> <<"live2">>] >>,
      descs |-> << >>],
     [links |-> << <<CamPath, "C3">> >>, imgs |-> << >>, descs |-> << >>] >>

ListPageB ==
  << [links |-> << <<CamPath, "A1">> >>,
      imgs |-> << [src |-> <<"s1b.jpg">>, dataSrc |-> <<"liveA">>] >>,
      descs |-> << <<"Renamed">> >>],
     [links |-> << <<"/about">> >>,
      imgs |-> << [src |-> <<"x.jpg">>, dataSrc |-> << >>] >>,
      descs |-> << >>],
     [links |-> << <<CamPath, "A1">> >>,
      imgs |-> << [src |-> <<"s1c.jpg">>, dataSrc |-> << >>] >>,
      descs |-> << << >> >>] >>

ListPageEmpty == << >>

ListPages == {ListPageA, ListPageB, ListPageEmpty}

\* Detail pages the relay may answer with.
DetailPageFull ==
  [divs |-> << <<"Info">>,
               <<LatLabel, " ", "2", "2", ".", "6", "2", "7", "3">>,
               <<LonLabel, " ", "1", "2", "0", ".", "3", "0", "1", "4">> >>,
   h1s |-> << <<"Cam", " ", "One", " ", TitleSuffix>> >>,
   videos |-> << <<"live-a1">> >>]

DetailPageLatOnly ==
  [divs |-> << <<LatLabel, " ", "2", "2", ".", "6", "2", "7", "3">>,
               <<LonLabel, " ", "east">> >>,
   h1s |-> << >>,
   videos |-> << << >> >>]

DetailPageZero ==
  [divs |-> << <<LatLabel, "0">>,
               <<LonLabel, " ", "1", "2", "0", ".", "3", "0", "1", "4">> >>,
   h1s |-> << <<"Equator", TitleSuffix>> >>,
   videos |-> << <<"live-eq">> >>]

DetailPageMoved ==
  [divs |-> << <<LatLabel, "2", "5", ".", "0">>,
               <<LonLabel, "1", "2", "1", ".", "5", ".", "9">>,
               <<LatLabel, " ", " ", "2", "5", ".", "1">> >>,
   h1s |-> << <<TitleSuffix>> >>,
   videos |-> << >>]

DetailPages ==
  {DetailPageFull, DetailPageLatOnly, DetailPageZero, DetailPageMoved}

\* Response bodies: one whose text() yields html, one whose text() fails
\* (the connection drops mid-body), and no body.
Body(html) == [text |-> html]
BrokenBody == [broken |-> TRUE]
NoBody == [none |-> TRUE]

BodiesFor(op) ==
  {BrokenBody} \cup {Body(html) : html \in
                       IF op = "list" THEN ListPages ELSE DetailPages}

(***************************************************************************)
(* Errors.                                                                 *)
(***************************************************************************)
HttpError(status) == [kind |-> "error", message |-> <<"HTTP ", ToString(status)>>]
NetworkError == [kind |-> "error", message |-> <<"Failed to fetch">>]
BodyReadError == [kind |-> "error", message |-> <<"body read failed">>]

\* response.ok
ResponseOk(status) == status \in 200..299

(***************************************************************************)
(* State.                                                                  *)
(*   cameraCache, coordCache, pendingRequests: the module's three Maps;    *)
(*     pendingRequests maps a key to the index in tasks of the promise     *)
(*     registered under it.                                                *)
(*   tasks: the promises created by the two operations (one async IIFE     *)
(*     each), in creation order.  A task holds the closure's variables     *)
(*     (op, arg, key), the url of its proxy fetch, its position (pc:       *)
(*     "fetch" awaiting fetch(), "text" awaiting response.text(), "done")  *)
(*     and the body of its response (NoBody until the response arrives).   *)
(*     History fields: by (the call that created it) and stored (it        *)
(*     executed coordCache.set).                                           *)
(*   calls: the calls of the two operations, in call order, each with the  *)
(*     promise it was handed (task, 0 when the value was returned from     *)
(*     the detail cache) and what it has observed of it (status, value).   *)
(*     History field: inflight (the task whose fetch for this call's key   *)
(*     was in flight when the call was made, 0 if none).                   *)
(***************************************************************************)
VARIABLES cameraCache, coordCache, pendingRequests, tasks, calls, lookup

cameraVars ==
  <<cameraCache, coordCache, pendingRequests, tasks, calls, lookup>>

\* lookup when the step just taken was not a call of getCachedCamera.
NoLookup == [id |-> "", value |-> Undefined]

CameraInit ==
  /\ cameraCache = EmptyMap
  /\ coordCache = EmptyMap
  /\ pendingRequests = EmptyMap
  /\ tasks = << >>
  /\ calls = << >>
  /\ lookup = NoLookup

(***************************************************************************)
(* State of App.                                                           *)
(*   map: null before init(), then the view of the Leaflet map (center and *)
(*     zoom).                                                              *)
(*   loadTimer: "null", or the debounce timeout it names: "armed" while    *)
(*     the timeout waits, "fired" once it has run (the variable keeps the  *)
(*     id).                                                                *)
(*   isLoading, markers (camId -> the camera the marker was made for).     *)
(*   load: the running call of loadCamerasInView: its position (pc: "idle" *)
(*     none is running, "list" awaiting the list, "map" inside batch.map,  *)
(*     "batch" awaiting Promise.all), the call of the list operation it    *)
(*     awaits, its local variables cameras, i and loadedCount, the index   *)
(*     next of the camera whose callback batch.map starts next, and the    *)
(*     detail calls its callbacks await (waiting).                         *)
(*   badge, toast: the camera-count badge and the text of the toast.       *)
(*   History variable: owed (a debounce timeout ran while a detail lookup  *)
(*     of the running load was pending, at a zoom that loads cameras, and  *)
(*     no list load has been started since).                               *)
(***************************************************************************)
VARIABLES map, loadTimer, isLoading, markers, load, badge, toast, owed

appVars == <<map, loadTimer, isLoading, markers, load, badge, toast, owed>>

NoLoad ==
  [pc |-> "idle", call |-> 0, cameras |-> << >>, i |-> 0, next |-> 0,
   waiting |-> {}, loadedCount |-> 0]

AppInit ==
  /\ map = Null
  /\ loadTimer = "null"
  /\ isLoading = FALSE
  /\ markers = EmptyMap
  /\ load = NoLoad
  /\ badge = [count |-> 0, visible |-> FALSE]
  /\ toast = ""
  /\ owed = FALSE

(***************************************************************************)
(* State of UIModule.                                                      *)
(*   currentCamera, refreshTimer (null or the id of an interval).          *)
(*   intervals: the ids of the intervals that are running.                 *)
(*   dialogImage: the img element: src, alt, onerror (null or the closure  *)
(*     installed by showCameraDialog, which holds its camera) and loading  *)
(*     (the outcome of the latest assignment of src is still to come).     *)
(*   dialogTitle: the text of the title.                                   *)
(*   overlayActive: the overlay carries the class "active".                *)
(*   cleanups: how many timeouts of closeCameraDialog wait to run.         *)
(*   History variables: shown (the camera most recently passed to          *)
(*     showCameraDialog), fallbacks (how many times the error handler ran  *)
(*     since then, counted up to 2) and did (the handler that ran in the   *)
(*     step just taken).                                                   *)
(***************************************************************************)
VARIABLES currentCamera, refreshTimer, intervals, dialogImage, dialogTitle,
          overlayActive, cleanups, shown, fallbacks, did

dialogVars ==
  <<currentCamera, refreshTimer, intervals, dialogImage, dialogTitle,
    overlayActive, cleanups, shown, fallbacks, did>>

DialogInit ==
  /\ currentCamera = Null
  /\ refreshTimer = Null
  /\ intervals = {}
  /\ dialogImage = [src |-> << >>, alt |-> << >>, onerror |-> Null,
                    loading |-> FALSE]
  /\ dialogTitle = << >>
  /\ overlayActive = FALSE
  /\ cleanups = 0
  /\ shown = Null
  /\ fallbacks = 0
  /\ did = "none"

vars == <<cameraVars, appVars, dialogVars>>

Init == CameraInit /\ AppInit /\ DialogInit

(***************************************************************************)
(* Keys of the pending-request table.                                      *)
(***************************************************************************)
\* x.toFixed(d) of a number x: the sign and the count of units of 10^-d,
\* rounded half away from zero ("-0.0000" keeps its sign).
ToFixed(x, d) ==
  LET mag == IF x < 0 THEN -x ELSE x
      unit == Pow10(Decimals - d)
  IN  [sign |-> IF x < 0 THEN "-" ELSE "",
       units |-> (2 * mag + unit) \div (2 * unit)]

\* Mutant: the key built from the coordinates as given, not rounded.
ListKeyUnrounded(lat, lon) ==
  [lat |-> ToFixed(lat, Decimals), sep |-> ",", lon |-> ToFixed(lon, Decimals)]

\* `${lat.toFixed(4)},${lon.toFixed(4)}`
ListKey(lat, lon) ==
  [lat |-> ToFixed(lat, KeyDecimals), sep |-> ",",
   lon |-> ToFixed(lon, KeyDecimals)]

\* `detail_${camId}`
DetailKey(camId) == [prefix |-> "detail_", camId |-> camId]

ListUrl(lat, lon) ==
  <<TWIPCAM_BASE, "/api/v1/query-cam-list-by-coordinate?lat=", ToString(lat),
    "&lon=", ToString(lon)>>

DetailUrl(camId) == <<TWIPCAM_BASE, CamPath, camId>>

(***************************************************************************)
(* History: the fetch in flight for a logical key.  The logical key of a   *)
(* query is computed here from the query itself (the list coordinates      *)
(* rounded to KeyDecimals decimals, or the camera id), not read from the   *)
(* pending-request table.                                                  *)
(***************************************************************************)
LogicalKey(op, arg) ==
  IF op = "list"
    THEN [op |-> op, lat |-> ToFixed(arg[1], KeyDecimals),
          lon |-> ToFixed(arg[2], KeyDecimals)]
    ELSE [op |-> op, camId |-> arg]

InFlight(t) == tasks[t].pc # "done"

InFlightFor(op, arg) ==
  {t \in DOMAIN tasks :
     InFlight(t) /\ LogicalKey(tasks[t].op, tasks[t].arg) = LogicalKey(op, arg)}

InFlightTask(op, arg) ==
  IF InFlightFor(op, arg) = {} THEN 0
  ELSE CHOOSE t \in InFlightFor(op, arg) : TRUE

(***************************************************************************)
(* The two operations, up to their first suspension point.                 *)
(***************************************************************************)
\* Mutant: the pending-request table is not consulted.
NeverPending(key) == FALSE

\* pendingRequests.has(key)
PendingHas(key) == MapHas(pendingRequests, key)

\* Mutant: the registered promise is not returned (the function falls
\* through and yields undefined).
ReturnNothing(op, arg, key) ==
  [op |-> op, arg |-> arg, inflight |-> InFlightTask(op, arg),
   task |-> 0, status |-> "fulfilled", value |-> Undefined]

\* return pendingRequests.get(key): the caller is handed the registered
\* promise.
ReturnPending(op, arg, key) ==
  [op |-> op, arg |-> arg, inflight |-> InFlightTask(op, arg),
   task |-> pendingRequests[key], status |-> "pending", value |-> Undefined]

\* return coordCache.get(camId): the caller is handed the cached record.
ReturnCached(camId) ==
  [op |-> "detail", arg |-> camId,
   inflight |-> InFlightTask("detail", camId),
   task |-> 0, status |-> "fulfilled", value |-> coordCache[camId]]

\* The async IIFE starts: it runs to its await of fetch(), the promise is
\* registered under key and handed to the caller.
StartTask(op, arg, key, url) ==
  LET t == Len(tasks) + 1
      c == Len(calls) + 1
  IN  /\ tasks' = Append(tasks, [op |-> op, arg |-> arg, key |-> key,
                                 url |-> url, pc |-> "fetch", body |-> NoBody,
                                 by |-> c, stored |-> FALSE])
      /\ pendingRequests' = MapSet(pendingRequests, key, t)
      /\ calls' = Append(calls, [op |-> op, arg |-> arg,
                                 inflight |-> InFlightTask(op, arg), task |-> t,
                                 status |-> "pending", value |-> Undefined])

fetchCamerasByCoordinate(lat, lon) ==
  LET key == ListKey(lat, lon)
  IN  /\ IF PendingHas(key)
           THEN /\ calls' = Append(calls, ReturnPending("list", <<lat, lon>>, key))
                /\ UNCHANGED <<tasks, pendingRequests>>
           ELSE StartTask("list", <<lat, lon>>, key, ListUrl(lat, lon))
      /\ UNCHANGED <<cameraCache, coordCache>>
      /\ lookup' = NoLookup

\* Mutant: the detail cache is not consulted.
NoCacheCheck(camId) == FALSE

\* coordCache.has(camId)
CoordCacheHas(camId) == MapHas(coordCache, camId)

fetchCameraDetail(camId) ==
  LET reqKey == DetailKey(camId)
  IN  /\ IF CoordCacheHas(camId)
           THEN /\ calls' = Append(calls, ReturnCached(camId))
                /\ UNCHANGED <<tasks, pendingRequests>>
           ELSE IF PendingHas(reqKey)
             THEN /\ calls' = Append(calls, ReturnPending("detail", camId, reqKey))
                  /\ UNCHANGED <<tasks, pendingRequests>>
             ELSE StartTask("detail", camId, reqKey, DetailUrl(camId))
      /\ UNCHANGED <<cameraCache, coordCache>>
      /\ lookup' = NoLookup

(***************************************************************************)
(* The end of a task: the finally block deregisters the key, the promise   *)
(* settles and every call that was handed it observes the settlement.      *)
(***************************************************************************)
\* Mutant: the key is deleted at the end of the try block, not in finally.
DeregisterOnSuccess(key, ok) ==
  IF ok THEN MapDelete(pendingRequests, key) ELSE pendingRequests

\* finally { pendingRequests.delete(key) }; ok tells whether the try block
\* returned (TRUE) or threw (FALSE).
Deregister(key, ok) == MapDelete(pendingRequests, key)

\* Mutant: the callers are told only when no other fetch is in flight.
ObserveWhenAlone(t, status, value) ==
  [c \in DOMAIN calls |->
     IF calls[c].task = t /\ \A u \in DOMAIN tasks : u = t \/ ~InFlight(u)
       THEN [calls[c] EXCEPT !.status = status, !.value = value]
       ELSE calls[c]]

\* The reactions of a settled promise: every call that was handed task t
\* observes its settlement.  The reactions run as microtasks right after
\* the settlement, before any other network completion, and no code of the
\* module changes a settled promise, so they are part of the same step.
Observe(t, status, value) ==
  [c \in DOMAIN calls |->
     IF calls[c].task = t
       THEN [calls[c] EXCEPT !.status = status, !.value = value]
       ELSE calls[c]]

Finish(t, ok, value, stored) ==
  /\ tasks' = [tasks EXCEPT ![t].pc = "done", ![t].stored = stored]
  /\ pendingRequests' = Deregister(tasks[t].key, ok)
  /\ calls' = Observe(t, IF ok THEN "fulfilled" ELSE "rejected", value)
  /\ lookup' = NoLookup

\* Mutant: the failure is swallowed and the operation completes with null.
SwallowFailure(t, error) ==
  /\ Finish(t, TRUE, Null, FALSE)
  /\ UNCHANGED <<cameraCache, coordCache>>

\* An exception leaves the try block: nothing is caught, the finally block
\* runs and the promise rejects with the error.
Throw(t, error) ==
  /\ Finish(t, FALSE, error, FALSE)
  /\ UNCHANGED <<cameraCache, coordCache>>

(***************************************************************************)
(* fetchWithProxy.                                                         *)
(***************************************************************************)
\* await fetch(proxyUrl) rejects: the transport failed.
FetchRejects(t) ==
  /\ tasks[t].pc = "fetch"
  /\ Throw(t, NetworkError)

\* await fetch(proxyUrl) resolves with a response of the given status and
\* body; a response that is not ok throws, an ok one is read with text().
FetchResolves(t, status, body) ==
  /\ tasks[t].pc = "fetch"
  /\ IF ~ResponseOk(status)
       THEN Throw(t, HttpError(status))
       ELSE /\ tasks' = [tasks EXCEPT ![t].pc = "text", ![t].body = body]
            /\ UNCHANGED <<cameraCache, coordCache, pendingRequests, calls>>
            /\ lookup' = NoLookup

(***************************************************************************)
(* The continuations after  await fetchWithProxy(url).                     *)
(***************************************************************************)
\* Mutant: the summary is stored whether or not the id is cached.
OverwriteSummary(cache, cam) == MapSet(cache, cam.id, cam)

\* if (!cameraCache.has(cam.id)) cameraCache.set(cam.id, cam)
MergeSummary(cache, cam) ==
  IF MapHas(cache, cam.id) THEN cache ELSE MapSet(cache, cam.id, cam)

\* cameras.forEach(...) over the parsed list, in order.
RECURSIVE MergeAll(_, _)
MergeAll(cache, cameras) ==
  IF cameras = << >> THEN cache
  ELSE MergeAll(MergeSummary(cache, Head(cameras)), Tail(cameras))

\* Mutant: the answer is read back from the merged summary cache.
ListValueFromCache(cameras) ==
  [kind |-> "list",
   cameras |-> [i \in DOMAIN cameras |->
                  MergeAll(cameraCache, cameras)[cameras[i].id]]]

\* return cameras
ListValue(cameras) == [kind |-> "list", cameras |-> cameras]

ListContinues(t) ==
  LET cameras == parseCameraListHTML(tasks[t].body.text)
  IN  /\ cameraCache' = MergeAll(cameraCache, cameras)
      /\ UNCHANGED coordCache
      /\ Finish(t, TRUE, ListValue(cameras), FALSE)

\* Mutant: only the latitude is tested.
HasLatitude(detail) == Truthy(detail.lat)

\* if (detail.lat && detail.lon)
HasCoordinates(detail) == Truthy(detail.lat) /\ Truthy(detail.lon)

CameraData(camId, detail) ==
  [id |-> camId, lat |-> detail.lat, lon |-> detail.lon,
   name |-> OrElse(detail.name, <<camId>>),
   liveFeedUrl |-> detail.liveFeedUrl,
   snapshotUrl |-> SnapshotFile(camId)]

\* Mutant: the page's name and liveFeedUrl are assigned even when empty.
EnrichUnconditionally(existing, detail) ==
  [id |-> existing.id, name |-> detail.name,
   snapshotUrl |-> existing.snapshotUrl, liveFeedUrl |-> detail.liveFeedUrl,
   lat |-> detail.lat, lon |-> detail.lon]

\* The update of the summary entry in place.
Enrich(existing, detail) ==
  [id |-> existing.id,
   name |-> IF NonEmpty(detail.name) THEN detail.name ELSE existing.name,
   snapshotUrl |-> existing.snapshotUrl,
   liveFeedUrl |-> IF NonEmpty(detail.liveFeedUrl) THEN detail.liveFeedUrl
                   ELSE existing.liveFeedUrl,
   lat |-> detail.lat, lon |-> detail.lon]

DetailContinues(t) ==
  LET camId == tasks[t].arg
      detail == parseCameraDetailHTML(tasks[t].body.text)
  IN  IF HasCoordinates(detail)
        THEN /\ coordCache' = MapSet(coordCache, camId, CameraData(camId, detail))
             /\ cameraCache' =
                  IF MapHas(cameraCache, camId)
                    THEN MapSet(cameraCache, camId,
                                Enrich(cameraCache[camId], detail))
                    ELSE cameraCache
             /\ Finish(t, TRUE, CameraData(camId, detail), TRUE)
        ELSE /\ UNCHANGED <<cameraCache, coordCache>>
             /\ Finish(t, TRUE, Null, FALSE)

\* await response.text() settles: it rejects for a broken body, and else
\* the operation runs to its end with the text.
TextSettles(t) ==
  /\ tasks[t].pc = "text"
  /\ IF tasks[t].body = BrokenBody THEN Throw(t, BodyReadError)
     ELSE IF tasks[t].op = "list" THEN ListContinues(t)
     ELSE DetailContinues(t)

(***************************************************************************)
(* getCachedCamera: a synchronous read of the two caches.  lookup holds    *)
(* the id asked for and the value returned by the step just taken.         *)
(***************************************************************************)
\* Mutant: the summary cache is consulted first.
SummaryFirst(camId) ==
  IF IsObject(MapGet(cameraCache, camId)) THEN MapGet(cameraCache, camId)
  ELSE IF IsObject(MapGet(coordCache, camId)) THEN MapGet(coordCache, camId)
  ELSE Null

\* coordCache.get(camId) || cameraCache.get(camId) || null
CachedCamera(camId) ==
  IF IsObject(MapGet(coordCache, camId)) THEN MapGet(coordCache, camId)
  ELSE IF IsObject(MapGet(cameraCache, camId)) THEN MapGet(cameraCache, camId)
  ELSE Null

getCachedCamera(camId) ==
  /\ lookup' = [id |-> camId, value |-> CachedCamera(camId)]
  /\ UNCHANGED <<cameraCache, coordCache, pendingRequests, tasks, calls>>

(***************************************************************************)
(* The specification.                                                      *)
(***************************************************************************)
\* The module on its own: the calls and the fetches of a behaviour are
\* bounded, and the rest of the page stands still.
ModuleOnly ==
  /\ Len(calls') <= MaxCalls
  /\ Len(tasks') <= MaxTasks
  /\ UNCHANGED <<appVars, dialogVars>>

Next ==
  \/ \E c \in Coordinates :
       fetchCamerasByCoordinate(c[1], c[2]) /\ ModuleOnly
  \/ \E camId \in CamIds : fetchCameraDetail(camId) /\ ModuleOnly
  \/ \E t \in DOMAIN tasks : FetchRejects(t) /\ ModuleOnly
  \/ \E t \in DOMAIN tasks : \E status \in HttpStatuses :
       \E body \in BodiesFor(tasks[t].op) :
         FetchResolves(t, status, body) /\ ModuleOnly
  \/ \E t \in DOMAIN tasks : TextSettles(t) /\ ModuleOnly

Spec == Init /\ [][Next]_vars

\* The module with its synchronous read: getCachedCamera may be called
\* between any two steps of the fetch operations.
LookupNext ==
  \/ \E c \in LookupCoordinates :
       fetchCamerasByCoordinate(c[1], c[2]) /\ ModuleOnly
  \/ \E camId \in CamIds : fetchCameraDetail(camId) /\ ModuleOnly
  \/ \E t \in DOMAIN tasks : FetchRejects(t) /\ ModuleOnly
  \/ \E t \in DOMAIN tasks : \E status \in HttpStatuses :
       \E body \in BodiesFor(tasks[t].op) :
         FetchResolves(t, status, body) /\ ModuleOnly
  \/ \E t \in DOMAIN tasks : TextSettles(t) /\ ModuleOnly
  \/ \E camId \in LookupIds : getCachedCamera(camId) /\ ModuleOnly

LookupSpec == Init /\ [][LookupNext]_vars

(***************************************************************************)
(* App: loading the cameras in view.                                       *)
(***************************************************************************)
DEFAULT_CENTER == <<2262730, 12030140>>
InitialView == [center |-> DEFAULT_CENTER, zoom |-> DEFAULT_ZOOM]

\* The views a move of the map can end in: the initial one, one around
\* another center, and one zoomed out too far to load cameras.
Views ==
  {InitialView,
   [center |-> <<2270000, 12030140>>, zoom |-> DEFAULT_ZOOM],
   [center |-> DEFAULT_CENTER, zoom |-> MinZoom - 1]}

\* The pages the proxy answers App's fetches with.
AppBodiesFor(op) ==
  IF op = "list" THEN {Body(ListPageA), Body(ListPageEmpty)}
  ELSE {Body(DetailPageFull), Body(DetailPageLatOnly)}

ZoomToast == "zoom in to see cameras"
ErrorToast == "error while loading cameras"

\* A continuation of loadCamerasInView is ready to run: the synchronous
\* run of batch.map has not ended, or a promise the function (or one of
\* its callbacks) awaits has settled.  Such a continuation runs before
\* any timer, event or network completion.
AppBusy ==
  \/ load.pc = "map"
  \/ load.pc = "list" /\ calls[load.call].status # "pending"
  \/ load.pc = "batch" /\ load.waiting = {}
  \/ load.pc = "batch" /\ \E c \in load.waiting : calls[c].status # "pending"

\* A detail lookup of the running loadCamerasInView is pending.
DetailPending ==
  load.pc = "batch" /\ \E c \in load.waiting : calls[c].status = "pending"

\* if (isLoading || !map) return
LoadRefused(m) == isLoading \/ m = Null

\* loadCamerasInView() up to its first await, the map being m.
loadCamerasInView(m) ==
  IF LoadRefused(m)
    THEN UNCHANGED <<isLoading, load, toast, cameraVars>>
  ELSE IF m.zoom < MinZoom
    THEN /\ toast' = ZoomToast
         /\ UNCHANGED <<isLoading, load, cameraVars>>
  ELSE /\ isLoading' = TRUE
       /\ fetchCamerasByCoordinate(m.center[1], m.center[2])
       /\ load' = [NoLoad EXCEPT !.pc = "list", !.call = Len(calls) + 1]
       /\ UNCHANGED toast

\* The call of loadCamerasInView starts a list load.
LoadStarts(m) == ~LoadRefused(m) /\ m.zoom >= MinZoom

\* init(): the map is created and the first load starts.
init ==
  /\ map = Null
  /\ ~AppBusy
  /\ map' = InitialView
  /\ loadCamerasInView(InitialView)
  /\ UNCHANGED <<loadTimer, markers, badge, owed>>

\* map.on('moveend'): the map has come to rest in view;
\* debouncedLoadCameras() clears the timeout and sets a new one.
MoveEnd(view) ==
  /\ map # Null
  /\ ~AppBusy
  /\ map' = view
  /\ loadTimer' = "armed"
  /\ UNCHANGED <<isLoading, markers, load, badge, toast, owed, cameraVars>>

\* The debounce timeout runs: loadCamerasInView().
TimerFires ==
  /\ loadTimer = "armed"
  /\ ~AppBusy
  /\ loadTimer' = "fired"
  /\ loadCamerasInView(map)
  /\ owed' = IF LoadStarts(map) THEN FALSE
             ELSE IF DetailPending /\ map.zoom >= MinZoom THEN TRUE
             ELSE owed
  /\ UNCHANGED <<map, markers, badge>>

\* updateCameraCount(count)
UpdateCameraCount(count) ==
  IF count > 0 THEN [count |-> count, visible |-> TRUE]
  ELSE [badge EXCEPT !.visible = FALSE]

\* finally { isLoading = false }: loadCamerasInView ends.
LoadEnds ==
  /\ isLoading' = FALSE
  /\ load' = NoLoad

\* The continuation after  await CameraModule.fetchCamerasByCoordinate.
ListAnswered ==
  /\ load.pc = "list"
  /\ calls[load.call].status # "pending"
  /\ IF calls[load.call].status = "rejected"
       THEN /\ toast' = ErrorToast
            /\ LoadEnds
            /\ UNCHANGED badge
     ELSE IF calls[load.call].value.cameras = << >>
       THEN /\ badge' = UpdateCameraCount(0)
            /\ LoadEnds
            /\ UNCHANGED toast
     ELSE /\ load' = [load EXCEPT !.pc = "map",
                                  !.cameras = calls[load.call].value.cameras,
                                  !.i = 1, !.next = 1]
          /\ UNCHANGED <<isLoading, badge, toast>>
  /\ UNCHANGED <<map, loadTimer, markers, owed, cameraVars>>

\* The last index of the batch that starts at i.
BatchEnd(i, cameras) ==
  IF i + batchSize - 1 < Len(cameras) THEN i + batchSize - 1
  ELSE Len(cameras)

\* batch.map starts the callback of the next camera of the batch, which
\* runs up to its await (or returns at once for a camera with a marker).
BatchCallback ==
  /\ load.pc = "map"
  /\ LET cam == load.cameras[load.next]
         last == load.next = BatchEnd(load.i, load.cameras)
         pc == IF last THEN "batch" ELSE "map"
     IN  IF MapHas(markers, cam.id)
           THEN /\ load' = [load EXCEPT !.pc = pc, !.next = @ + 1,
                                        !.loadedCount = @ + 1]
                /\ UNCHANGED cameraVars
           ELSE /\ fetchCameraDetail(cam.id)
                /\ load' = [load EXCEPT !.pc = pc, !.next = @ + 1,
                                        !.waiting = @ \cup {Len(calls) + 1}]
  /\ UNCHANGED <<map, loadTimer, isLoading, markers, badge, toast, owed>>

\* A value is a CameraDetail record (not null, undefined, a list or an error).
IsCameraDetail(v) == {"id", "lat", "lon"} \subseteq DOMAIN v

\* detail && detail.lat && detail.lon
UsableDetail(v) == IsCameraDetail(v) /\ Truthy(v.lat) /\ Truthy(v.lon)

\* addCameraMarker(camera): the marker keeps the camera for its click.
addCameraMarker(camera) ==
  IF MapHas(markers, camera.id) THEN markers
  ELSE MapSet(markers, camera.id, camera)

\* The continuation of a callback after  await fetchCameraDetail(cam.id);
\* a rejection is caught and dropped.
DetailAnswered(c) ==
  /\ load.pc = "batch"
  /\ c \in load.waiting
  /\ calls[c].status # "pending"
  /\ IF calls[c].status = "fulfilled" /\ UsableDetail(calls[c].value)
       THEN /\ markers' = addCameraMarker(calls[c].value)
            /\ load' = [load EXCEPT !.waiting = @ \ {c},
                                    !.loadedCount = @ + 1]
       ELSE /\ UNCHANGED markers
            /\ load' = [load EXCEPT !.waiting = @ \ {c}]
  /\ UNCHANGED <<map, loadTimer, isLoading, badge, toast, owed, cameraVars>>

\* The continuation after  await Promise.all(promises): the next batch, or
\* the end of the function.
BatchDone ==
  /\ load.pc = "batch"
  /\ load.waiting = {}
  /\ IF load.i + batchSize <= Len(load.cameras)
       THEN /\ load' = [load EXCEPT !.pc = "map", !.i = @ + batchSize,
                                    !.next = load.i + batchSize]
            /\ UNCHANGED <<isLoading, badge>>
       ELSE /\ badge' = UpdateCameraCount(Cardinality(DOMAIN markers))
            /\ LoadEnds
  /\ UNCHANGED <<map, loadTimer, markers, toast, owed, cameraVars>>

\* App with CameraModule: a step of the network is taken when no
\* continuation of App is ready; the loads of a behaviour are bounded, and
\* the dialog stands still.
Network ==
  /\ ~AppBusy
  /\ UNCHANGED <<appVars, dialogVars>>

ListCalls(cs) == {c \in DOMAIN cs : cs[c].op = "list"}

AppOnly ==
  /\ Cardinality(ListCalls(calls')) <= MaxLoads
  /\ UNCHANGED dialogVars

AppNext ==
  \/ init /\ AppOnly
  \/ \E view \in Views : MoveEnd(view) /\ AppOnly
  \/ TimerFires /\ AppOnly
  \/ ListAnswered /\ AppOnly
  \/ BatchCallback /\ AppOnly
  \/ \E c \in DOMAIN calls : DetailAnswered(c) /\ AppOnly
  \/ BatchDone /\ AppOnly
  \/ \E t \in DOMAIN tasks : FetchRejects(t) /\ Network
  \/ \E t \in DOMAIN tasks : \E status \in HttpStatuses :
       \E body \in AppBodiesFor(tasks[t].op) :
         FetchResolves(t, status, body) /\ Network
  \/ \E t \in DOMAIN tasks : TextSettles(t) /\ Network

AppSpec == Init /\ [][AppNext]_vars

(***************************************************************************)
(* UIModule: the camera dialog.                                            *)
(***************************************************************************)
\* What a list page appends to a camera's name: the distance and the
\* temperature (written in pinyin here), each one token.
DistanceNote == "juli120gongchi"
TemperatureNote == "qiwen28C"

\* displayName.replace(/<distance>/g, '').replace(/<temperature>/g, '').trim()
CleanName(displayName) ==
  Trim(SelectSeq(displayName,
                 LAMBDA tok : tok \notin {DistanceNote, TemperatureNote}))

\* The cameras a marker can hand to showCameraDialog: with a live feed,
\* without one (and without a name), and with a live feed and the notes of
\* a list page in its name.
DialogCameras ==
  {CameraData("A1", parseCameraDetailHTML(DetailPageFull)),
   CameraData("B2", parseCameraDetailHTML(DetailPageMoved)),
   [CameraData("D4", parseCameraDetailHTML(DetailPageZero))
      EXCEPT !.lat = Num(2262730),
             !.name = <<"Pier", " ", DistanceNote, TemperatureNote>>]}

\* The values Date.now() takes.
Times == {"1000", "3000"}

\* getSnapshotUrl(camId), Date.now() being now.
getSnapshotUrl(camId, now) == <<SNAPSHOT_BASE, camId, ".jpg?t=", now>>

IsSnapshotOf(url, camId) == \E now \in Times : url = getSnapshotUrl(camId, now)

\* Mutant: the error handler stays on the image.
KeepErrorHandler(img) == img

\* dialogImage.onerror = null
ClearErrorHandler(img) == [img EXCEPT !.onerror = Null]

\* dialogImage.src = url: the image starts to load url.
SetSrc(img, url) == [img EXCEPT !.src = url, !.loading = TRUE]

\* stopAutoRefresh(): the timer variable and the running intervals after it.
stopAutoRefresh(timer, running) ==
  IF timer # Null THEN [timer |-> Null, running |-> running \ {timer.id}]
  ELSE [timer |-> timer, running |-> running]

\* The id setInterval returns: one that names no running interval.
FreshId(running) ==
  CHOOSE id \in 1..(Cardinality(running) + 1) :
    id \notin running /\ \A j \in 1..(id - 1) : j \in running

\* startAutoRefresh()
startAutoRefresh(timer, running) ==
  LET stopped == stopAutoRefresh(timer, running)
      id == FreshId(stopped.running)
  IN  [timer |-> [id |-> id], running |-> stopped.running \cup {id}]

\* Mutant: the handler does not remove itself.
LiveFeedFailedKeepsHandler(img, camera, now) ==
  SetSrc(img, getSnapshotUrl(camera.id, now))

\* The body of the onerror handler, up to startAutoRefresh().
LiveFeedFailed(img, camera, now) ==
  SetSrc(ClearErrorHandler(img), getSnapshotUrl(camera.id, now))

showCameraDialog(camera, now) ==
  LET displayName == OrElse(camera.name, <<camera.id>>)
      reset == ClearErrorHandler(dialogImage)
      stopped == stopAutoRefresh(refreshTimer, intervals)
      started == startAutoRefresh(stopped.timer, stopped.running)
  IN  /\ currentCamera' = camera
      /\ dialogTitle' = CleanName(displayName)
      /\ IF NonEmpty(camera.liveFeedUrl)
           THEN /\ dialogImage' =
                     [SetSrc(reset, camera.liveFeedUrl)
                        EXCEPT !.alt = displayName,
                               !.onerror = [camera |-> camera]]
                /\ refreshTimer' = stopped.timer
                /\ intervals' = stopped.running
           ELSE /\ dialogImage' =
                     [SetSrc(reset, getSnapshotUrl(camera.id, now))
                        EXCEPT !.alt = displayName]
                /\ refreshTimer' = started.timer
                /\ intervals' = started.running
      /\ overlayActive' = TRUE
      /\ shown' = camera
      /\ fallbacks' = 0
      /\ did' = "show"
      /\ UNCHANGED cleanups

closeCameraDialog ==
  LET stopped == stopAutoRefresh(refreshTimer, intervals)
  IN  /\ overlayActive' = FALSE
      /\ refreshTimer' = stopped.timer
      /\ intervals' = stopped.running
      /\ dialogImage' = ClearErrorHandler(dialogImage)
      /\ cleanups' = cleanups + 1
      /\ did' = "close"
      /\ UNCHANGED <<currentCamera, dialogTitle, shown, fallbacks>>

\* The timeout of closeCameraDialog runs, 300 ms after the close.
CleanupRuns ==
  /\ cleanups > 0
  /\ cleanups' = cleanups - 1
  /\ dialogImage' = SetSrc(dialogImage, << >>)
  /\ currentCamera' = Null
  /\ did' = "cleanup"
  /\ UNCHANGED <<refreshTimer, intervals, dialogTitle, overlayActive, shown,
                 fallbacks>>

\* The image has loaded (no load handler is installed).
ImageLoads ==
  /\ dialogImage.loading
  /\ dialogImage.src # << >>
  /\ dialogImage' = [dialogImage EXCEPT !.loading = FALSE]
  /\ did' = "load"
  /\ UNCHANGED <<currentCamera, refreshTimer, intervals, dialogTitle,
                 overlayActive, cleanups, shown, fallbacks>>

\* The image has failed to load (an empty src fails too): the error event
\* runs the handler the image carries at that moment, if any.
ImageError(now) ==
  /\ dialogImage.loading
  /\ did' = "error"
  /\ IF dialogImage.onerror = Null
       THEN /\ dialogImage' = [dialogImage EXCEPT !.loading = FALSE]
            /\ UNCHANGED <<refreshTimer, intervals, fallbacks>>
       ELSE LET started == startAutoRefresh(refreshTimer, intervals)
            IN  /\ dialogImage' =
                     LiveFeedFailed(dialogImage, dialogImage.onerror.camera,
                                    now)
                /\ refreshTimer' = started.timer
                /\ intervals' = started.running
                /\ fallbacks' = IF fallbacks < 2 THEN fallbacks + 1 ELSE 2
  /\ UNCHANGED <<currentCamera, dialogTitle, overlayActive, cleanups, shown>>

\* A running interval ticks (every 2000 ms).
RefreshTick(id, now) ==
  /\ id \in intervals
  /\ dialogImage' =
       IF currentCamera # Null
         THEN SetSrc(dialogImage, getSnapshotUrl(currentCamera.id, now))
         ELSE dialogImage
  /\ did' = "tick"
  /\ UNCHANGED <<currentCamera, refreshTimer, intervals, dialogTitle,
                 overlayActive, cleanups, shown, fallbacks>>

\* The dialog on its own: the cleanup timeouts that wait are bounded, and
\* the rest of the page stands still.
DialogOnly ==
  /\ cleanups' <= MaxCleanups
  /\ UNCHANGED <<cameraVars, appVars>>

DialogNext ==
  \/ \E camera \in DialogCameras : \E now \in Times :
       showCameraDialog(camera, now) /\ DialogOnly
  \/ closeCameraDialog /\ DialogOnly
  \/ CleanupRuns /\ DialogOnly
  \/ ImageLoads /\ DialogOnly
  \/ \E now \in Times : ImageError(now) /\ DialogOnly
  \/ \E id \in intervals : \E now \in Times : RefreshTick(id, now) /\ DialogOnly

DialogSpec == Init /\ [][DialogNext]_vars

(***************************************************************************)
(* Properties.                                                             *)
(***************************************************************************)
Settled(c) == calls[c].status # "pending"

\* The tasks created by call c.
CreatedBy(c) == {t \in DOMAIN tasks : tasks[t].by = c}

\* C1: request coalescing.  For every logical key (list coordinates rounded
\* to 4 decimals, or camera id) at most one proxy fetch is in flight, and a
\* call made while a fetch for its key is in flight starts no proxy fetch:
\* it awaits the fetch that was in flight.
C1_Coalescing ==
  /\ \A t1, t2 \in DOMAIN tasks :
       /\ InFlight(t1) /\ InFlight(t2)
       /\ LogicalKey(tasks[t1].op, tasks[t1].arg)
            = LogicalKey(tasks[t2].op, tasks[t2].arg)
       => t1 = t2
  /\ \A c \in DOMAIN calls :
       calls[c].inflight # 0 =>
         /\ CreatedBy(c) = {}
         /\ calls[c].task = calls[c].inflight

\* Two list calls with different coordinates of the same rounded key, the
\* second made while the first one's fetch was in flight, and one proxy
\* fetch in all.
C1_Witness ==
  \E c1, c2 \in DOMAIN calls :
    /\ c1 < c2
    /\ calls[c1].op = "list" /\ calls[c2].op = "list"
    /\ calls[c1].arg # calls[c2].arg
    /\ calls[c2].inflight # 0
    /\ calls[c2].inflight = calls[c1].task
    /\ Len(tasks) = 1
    /\ Settled(c1) /\ Settled(c2)

\* C2: every call made while a fetch for its key was in flight observes,
\* once that fetch has completed, the outcome of the call that started the
\* fetch: the same status (fulfilled or rejected) and the same value or
\* error; none is left pending.
C2_SameOutcome ==
  \A c \in DOMAIN calls :
    (calls[c].inflight # 0 /\ ~InFlight(calls[c].inflight)) =>
      LET first == tasks[calls[c].inflight].by
      IN  /\ Settled(first)
          /\ Settled(c)
          /\ calls[c].status = calls[first].status
          /\ calls[c].value = calls[first].value

\* A coalesced call that observed the failure of the shared fetch.
C2_Witness ==
  \E c \in DOMAIN calls :
    /\ calls[c].inflight # 0
    /\ ~InFlight(calls[c].inflight)
    /\ calls[c].status = "rejected"
    /\ calls[tasks[calls[c].inflight].by].status = "rejected"

\* C3: a key is in the pending-request table exactly while its fetch is in
\* flight (on success and on failure alike), and it maps to that fetch's
\* promise; a call made while no fetch for its key is in flight either is
\* answered from the detail cache or starts a new fetch.
C3_PendingExactlyInFlight ==
  /\ \A t \in DOMAIN tasks :
       InFlight(t) =>
         /\ MapHas(pendingRequests, tasks[t].key)
         /\ pendingRequests[tasks[t].key] = t
  /\ \A k \in DOMAIN pendingRequests :
       /\ pendingRequests[k] \in DOMAIN tasks
       /\ InFlight(pendingRequests[k])
       /\ tasks[pendingRequests[k]].key = k
  /\ \A c \in DOMAIN calls :
       calls[c].inflight = 0 =>
         \/ calls[c].op = "detail" /\ calls[c].task = 0
         \/ calls[c].task \in CreatedBy(c)

\* A fetch failed, its key left the table, and a later call with the same
\* key started a new fetch.
C3_Witness ==
  \E t1, t2 \in DOMAIN tasks :
    /\ t1 < t2
    /\ tasks[t1].key = tasks[t2].key
    /\ ~InFlight(t1)
    /\ calls[tasks[t1].by].status = "rejected"
    /\ pendingRequests[tasks[t2].key] = t2

\* Detail calls c1, c2 for the same id, c2 made after c1 completed: c2 comes
\* later and no fetch for the id was in flight when it was made (a call that
\* has not completed keeps the fetch of its key in flight).
InSequence(c1, c2) ==
  /\ c1 < c2
  /\ calls[c1].op = "detail" /\ calls[c2].op = "detail"
  /\ calls[c1].arg = calls[c2].arg
  /\ calls[c2].inflight = 0

\* C4 as stated: of two detail calls in sequence for the same id the second
\* starts no fetch and returns what the first returned, from the cache.
C4_Original ==
  \A c1, c2 \in DOMAIN calls :
    InSequence(c1, c2) =>
      /\ calls[c2].task = 0
      /\ CreatedBy(c2) = {}
      /\ calls[c2].status = "fulfilled"
      /\ calls[c2].value = calls[c1].value

\* C4 amended: when the first call completed with a CameraDetail, the second
\* call in sequence starts no fetch and returns that same record from the
\* cache, so that the two calls triggered at most the one fetch of the first.
C4_SecondCallCached ==
  \A c1, c2 \in DOMAIN calls :
    (/\ InSequence(c1, c2)
     /\ calls[c1].status = "fulfilled"
     /\ IsCameraDetail(calls[c1].value)) =>
      /\ calls[c2].task = 0
      /\ CreatedBy(c2) = {}
      /\ calls[c2].status = "fulfilled"
      /\ calls[c2].value = calls[c1].value
      /\ Cardinality(CreatedBy(c1) \cup CreatedBy(c2)) <= 1

\* The first call fetched and returned a CameraDetail, the second was made
\* after it and was answered without a fetch.
C4_Witness ==
  \E c1, c2 \in DOMAIN calls :
    /\ InSequence(c1, c2)
    /\ CreatedBy(c1) # {}
    /\ calls[c1].status = "fulfilled"
    /\ IsCameraDetail(calls[c1].value)
    /\ calls[c2].task = 0
    /\ calls[c2].value = calls[c1].value

\* The call made in this step, when the step is a call of fetchCameraDetail.
IsDetailCallStep(camId) ==
  /\ Len(calls') = Len(calls) + 1
  /\ calls'[Len(calls')].op = "detail"
  /\ calls'[Len(calls')].arg = camId

\* The detail tasks for camId that executed coordCache.set.
Populating(camId) ==
  {t \in DOMAIN tasks :
     tasks[t].op = "detail" /\ tasks[t].arg = camId /\ tasks[t].stored}

\* C5: a detail call for an id that is in the detail cache returns the cached
\* record, starts no fetch and leaves the pending-request table and both
\* caches as they were; and at most one fetch per id ever populates the
\* detail cache.
C5_PureCacheHit ==
  /\ [](\A camId \in CamIds : Cardinality(Populating(camId)) <= 1)
  /\ [][\A camId \in CamIds :
          (IsDetailCallStep(camId) /\ camId \in DOMAIN coordCache) =>
            /\ calls'[Len(calls')].status = "fulfilled"
            /\ calls'[Len(calls')].value = coordCache[camId]
            /\ tasks' = tasks
            /\ pendingRequests' = pendingRequests
            /\ coordCache' = coordCache
            /\ cameraCache' = cameraCache]_vars

\* A detail call found its id in the detail cache, which one fetch populated.
C5_Witness ==
  \E c \in DOMAIN calls :
    /\ calls[c].op = "detail"
    /\ calls[c].task = 0
    /\ calls[c].arg \in DOMAIN coordCache
    /\ calls[c].value = coordCache[calls[c].arg]
    /\ Cardinality(Populating(calls[c].arg)) = 1

\* Task t runs its continuation after  await fetchWithProxy(url)  in this
\* step, with the text of a page.
ContinuesWithPage(t, op) ==
  /\ tasks[t].op = op
  /\ tasks[t].pc = "text"
  /\ tasks'[t].pc = "done"
  /\ tasks[t].body # BrokenBody

\* The parsed page of a task lacks the latitude or the longitude.
LacksCoordinate(t) ==
  LET detail == parseCameraDetailHTML(tasks[t].body.text)
  IN  detail.lat = Null \/ detail.lon = Null


\* C6: when the parsed detail page lacks the latitude or the longitude, the
\* operation fulfils with null and leaves both caches as they were.
C6_NullWhenCoordinateMissing ==
  [][\A t \in DOMAIN tasks :
       (ContinuesWithPage(t, "detail") /\ LacksCoordinate(t)) =>
         /\ calls'[tasks[t].by].status = "fulfilled"
         /\ calls'[tasks[t].by].value = Null
         /\ coordCache' = coordCache
         /\ cameraCache' = cameraCache]_vars

\* A detail fetch completed with a page that lacks a coordinate, and its
\* caller holds null.
C6_Witness ==
  \E t \in DOMAIN tasks :
    /\ tasks[t].op = "detail"
    /\ tasks[t].pc = "done"
    /\ tasks[t].body \notin {BrokenBody, NoBody}
    /\ LacksCoordinate(t)
    /\ calls[tasks[t].by].status = "fulfilled"
    /\ calls[tasks[t].by].value = Null
    /\ tasks[t].arg \notin DOMAIN coordCache

\* The parsed page of a task.
ParsedDetail(t) == parseCameraDetailHTML(tasks[t].body.text)

\* C7: when the parsed detail page yields both coordinates (neither is null,
\* 0 included), the operation for an uncached id stores a CameraDetail with
\* exactly those coordinates in the detail cache under the id and returns it.
C7_StoresWhenBothPresent ==
  [][\A t \in DOMAIN tasks :
       (/\ ContinuesWithPage(t, "detail")
        /\ ParsedDetail(t).lat # Null
        /\ ParsedDetail(t).lon # Null
        /\ tasks[t].arg \notin DOMAIN coordCache) =>
         /\ tasks[t].arg \in DOMAIN coordCache'
         /\ coordCache'[tasks[t].arg].lat = ParsedDetail(t).lat
         /\ coordCache'[tasks[t].arg].lon = ParsedDetail(t).lon
         /\ calls'[tasks[t].by].status = "fulfilled"
         /\ calls'[tasks[t].by].value = coordCache'[tasks[t].arg]]_vars

\* C8: an id in the detail cache stays in it, with the same lat and lon, in
\* every step.
C8_CoordinatesNeverChange ==
  [][\A camId \in DOMAIN coordCache :
       /\ camId \in DOMAIN coordCache'
       /\ coordCache'[camId].lat = coordCache[camId].lat
       /\ coordCache'[camId].lon = coordCache[camId].lon]_vars

\* Two detail fetches for one id completed with different pages, one of them
\* populated the detail cache, and a later call was answered from it.
C8_Witness ==
  \E t1, t2 \in DOMAIN tasks :
    /\ t1 # t2
    /\ tasks[t1].op = "detail" /\ tasks[t2].op = "detail"
    /\ tasks[t1].arg = tasks[t2].arg
    /\ ~InFlight(t1) /\ ~InFlight(t2)
    /\ tasks[t1].body # tasks[t2].body
    /\ tasks[t1].body \notin {BrokenBody, NoBody}
    /\ tasks[t2].stored
    /\ tasks[t2].arg \in DOMAIN coordCache
    /\ \E c \in DOMAIN calls : calls[c].arg = tasks[t2].arg /\ calls[c].task = 0

\* The ids of a parsed list.
IdsOf(cameras) == {cameras[i].id : i \in DOMAIN cameras}

\* The first summary of a parsed list that carries id.
FirstWith(cameras, id) ==
  cameras[CHOOSE i \in DOMAIN cameras :
            /\ cameras[i].id = id
            /\ \A j \in 1..(i - 1) : cameras[j].id # id]

\* C9: the list operation leaves every entry of the summary cache as it was
\* and adds, for each id of the parsed list that was not cached, the first
\* summary of the list with that id; merging a list into a cache that
\* already merged it changes nothing.
C9_MergeWithoutOverwrite ==
  /\ [](\A page \in ListPages :
          LET merged == MergeAll(cameraCache, parseCameraListHTML(page))
          IN  MergeAll(merged, parseCameraListHTML(page)) = merged)
  /\ [][\A t \in DOMAIN tasks :
          ContinuesWithPage(t, "list") =>
            LET cameras == parseCameraListHTML(tasks[t].body.text)
            IN  /\ DOMAIN cameraCache' = DOMAIN cameraCache \cup IdsOf(cameras)
                /\ \A id \in DOMAIN cameraCache :
                     cameraCache'[id] = cameraCache[id]
                /\ \A id \in IdsOf(cameras) \ DOMAIN cameraCache :
                     cameraCache'[id] = FirstWith(cameras, id)]_vars

\* Two list fetches completed with different pages that both carry A1; the
\* cache holds for A1 the entry of one page, and the entry of the other page
\* (which came second) did not replace it.
C9_Witness ==
  \E t1, t2 \in DOMAIN tasks :
    /\ tasks[t1].op = "list" /\ tasks[t2].op = "list"
    /\ ~InFlight(t1) /\ ~InFlight(t2)
    /\ tasks[t1].body = Body(ListPageA)
    /\ tasks[t2].body = Body(ListPageB)
    /\ "A1" \in DOMAIN cameraCache
    /\ cameraCache["A1"] = parseCameraListHTML(ListPageA)[1]
    /\ cameraCache["A1"] # parseCameraListHTML(ListPageB)[1]

\* C10: when the summary cache holds an entry for the id with an empty
\* liveFeedUrl and the detail page yields both coordinates (neither is null)
\* and a non-empty liveFeedUrl, the resolution sets the entry's liveFeedUrl
\* to the page's, in the same entry.
C10_EnrichesEmptyLiveFeed ==
  [][\A t \in DOMAIN tasks :
       (/\ ContinuesWithPage(t, "detail")
        /\ tasks[t].arg \in DOMAIN cameraCache
        /\ cameraCache[tasks[t].arg].liveFeedUrl = << >>
        /\ ParsedDetail(t).lat # Null
        /\ ParsedDetail(t).lon # Null
        /\ ParsedDetail(t).liveFeedUrl # << >>) =>
         /\ DOMAIN cameraCache' = DOMAIN cameraCache
         /\ cameraCache'[tasks[t].arg].id = cameraCache[tasks[t].arg].id
         /\ cameraCache'[tasks[t].arg].liveFeedUrl
              = ParsedDetail(t).liveFeedUrl]_vars

\* Field f of the summary entry of camId differs after the step.
FieldChanges(camId, f) ==
  /\ camId \in DOMAIN cameraCache'
  /\ cameraCache'[camId][f] # cameraCache[camId][f]

DetailStepWith(camId, f, v) ==
  \E t \in DOMAIN tasks :
    /\ ContinuesWithPage(t, "detail")
    /\ tasks[t].arg = camId
    /\ ParsedDetail(t)[f] = v
    /\ v # << >>

PageOf(t) == tasks[t].body.text

\* C12: a list call that completes normally returns the list parsed from
\* the response of its own fetch, in document order and with that page's
\* field values, not the merged summary cache: ids cached earlier and absent
\* from the page are not in the answer, an id cached earlier is answered
\* with this page's values, and an empty parsed list is a normal completion.
C12_AnswerIsThisPage ==
  \A c \in DOMAIN calls :
    (calls[c].op = "list" /\ Settled(c)) =>
      LET t == calls[c].task
      IN  \/ /\ calls[c].status = "rejected"
             /\ \/ tasks[t].body \in {NoBody, BrokenBody}
          \/ /\ calls[c].status = "fulfilled"
             /\ tasks[t].body \notin {NoBody, BrokenBody}
             /\ calls[c].value.kind = "list"
             /\ calls[c].value.cameras = parseCameraListHTML(PageOf(t))

\* A list call answered by page B returned page B's values for A1 while the
\* summary cache still holds A1 as first seen on page A, together with B2,
\* which page B does not list.
C12_Witness ==
  \E c \in DOMAIN calls :
    /\ calls[c].op = "list"
    /\ calls[c].status = "fulfilled"
    /\ PageOf(calls[c].task) = ListPageB
    /\ calls[c].value.cameras[1].id = "A1"
    /\ "A1" \in DOMAIN cameraCache
    /\ cameraCache["A1"] = parseCameraListHTML(ListPageA)[1]
    /\ calls[c].value.cameras[1] # cameraCache["A1"]
    /\ "B2" \in DOMAIN cameraCache
    /\ "B2" \notin IdsOf(calls[c].value.cameras)

\* The step is a call of getCachedCamera.
IsLookupStep == lookup' # NoLookup

\* C13: getCachedCamera(id) returns the detail-cache entry when there is
\* one (also when the id is in both caches), else the summary-cache entry,
\* else null, in every reachable state, also while a fetch for that id is
\* in flight; the call starts no fetch and leaves both caches and the
\* pending table as they were.
C13_DetailThenSummaryThenNull ==
  [][IsLookupStep =>
       /\ lookup'.value =
            IF lookup'.id \in DOMAIN coordCache THEN coordCache[lookup'.id]
            ELSE IF lookup'.id \in DOMAIN cameraCache
              THEN cameraCache[lookup'.id]
            ELSE Null
       /\ UNCHANGED <<cameraCache, coordCache, pendingRequests, tasks, calls>>
    ]_vars

\* A1 was looked up while in both caches with different records, and the
\* answer was the detail-cache record.
C13_Witness ==
  /\ lookup.id = "A1"
  /\ "A1" \in DOMAIN coordCache
  /\ "A1" \in DOMAIN cameraCache
  /\ coordCache["A1"] # cameraCache["A1"]
  /\ lookup.value = coordCache["A1"]

\* The proxy fetch of task t fails in the step: the transport fails or the
\* response is not ok, and the operation ends without reading a body.
FetchFails(t) == tasks[t].pc = "fetch" /\ tasks'[t].pc = "done"

FetchFailures == {NetworkError} \cup {HttpError(status) : status \in HttpStatuses}

\* C14: when the proxy fetch of a list or detail operation fails (transport
\* failure or non-success status), every caller of the operation gets the
\* failure, no other fetch is started or restarted (the operation issued
\* exactly one fetch), and both caches stay as they were.
C14_FailurePropagatesNoRetry ==
  /\ [](\A c \in DOMAIN calls : Cardinality(CreatedBy(c)) <= 1)
  /\ [][\A t \in DOMAIN tasks :
          FetchFails(t) =>
            /\ UNCHANGED <<cameraCache, coordCache>>
            /\ Len(tasks') = Len(tasks)
            /\ \A u \in DOMAIN tasks : u # t => tasks'[u] = tasks[u]
            /\ \A c \in DOMAIN calls :
                 calls[c].task = t =>
                   /\ calls'[c].status = "rejected"
                   /\ calls'[c].value \in FetchFailures]_vars

\* A list operation failed on an HTTP 500 and a detail operation on a
\* transport failure, each after a single fetch.
C14_Witness ==
  \E c, d \in DOMAIN calls :
    /\ calls[c].op = "list" /\ calls[c].status = "rejected"
    /\ calls[c].value = HttpError(500)
    /\ calls[d].op = "detail" /\ calls[d].status = "rejected"
    /\ calls[d].value = NetworkError
    /\ Cardinality(CreatedBy(c)) = 1 /\ Cardinality(CreatedBy(d)) = 1

\* The step is a call of a fetch operation that finds no fetch in flight
\* for its own key and, for a detail call, no detail-cache entry.
IsFreshCallStep ==
  /\ Len(calls') = Len(calls) + 1
  /\ LET call == calls'[Len(calls')]
     IN  /\ InFlightFor(call.op, call.arg) = {}
         /\ ~(call.op = "detail" /\ call.arg \in DOMAIN coordCache)

\* C15: a proxy fetch that never completes stalls only the callers of its
\* own key.  Whatever other fetches are in flight: a call on a key with no
\* fetch in flight starts its own fetch; when a fetch ends, its callers are
\* settled in that same step; a call of getCachedCamera returns a value.
C15_StallIsPerKey ==
  [][/\ IsLookupStep => lookup'.value # Undefined
     /\ IsFreshCallStep =>
          /\ Len(tasks') = Len(tasks) + 1
          /\ tasks'[Len(tasks')].by = Len(calls')
          /\ tasks'[Len(tasks')].pc = "fetch"
          /\ calls'[Len(calls')].task = Len(tasks')
     /\ \A t \in DOMAIN tasks :
          (InFlight(t) /\ tasks'[t].pc = "done") =>
            \A c \in DOMAIN calls :
              calls[c].task = t => calls'[c].status # "pending"]_vars

\* The fetch of the first task never completed; a later call on another
\* key started its own fetch and was fulfilled, and getCachedCamera has
\* just answered.
C15_Witness ==
  /\ lookup # NoLookup
  /\ \E t, u \in DOMAIN tasks :
       /\ t < u
       /\ tasks[t].pc = "fetch"
       /\ LogicalKey(tasks[t].op, tasks[t].arg)
            # LogicalKey(tasks[u].op, tasks[u].arg)
       /\ tasks[u].pc = "done"
       /\ calls[tasks[u].by].status = "fulfilled"
       /\ calls[tasks[t].by].status = "pending"

\* The indices of the divs whose text matches the pattern of label.
Matching(divs, label) ==
  {i \in DOMAIN divs : LabelMatch(divs[i], label) # << >>}

\* The number in the first div, in document order, that matches the pattern
\* of label; null when no div matches.
FirstMatch(divs, label) ==
  IF Matching(divs, label) = {} THEN Null
  ELSE LET i == CHOOSE j \in Matching(divs, label) :
                  \A k \in Matching(divs, label) : j <= k
       IN  parseFloat(LabelMatch(divs[i], label))

\* C16: the detail parser is first-match-wins: for every page a detail
\* operation has parsed, lat is the number of the first div that starts with
\* the latitude label and lon the number of the first div that starts with
\* the longitude label (null when no div matches), and a CameraDetail
\* returned for the page carries those coordinates.
C16_FirstMatchWins ==
  \A t \in DOMAIN tasks :
    (tasks[t].op = "detail" /\ tasks[t].pc = "done"
       /\ tasks[t].body \notin {NoBody, BrokenBody}) =>
      /\ ParsedDetail(t).lat = FirstMatch(PageOf(t).divs, LatLabel)
      /\ ParsedDetail(t).lon = FirstMatch(PageOf(t).divs, LonLabel)
      /\ \A c \in DOMAIN calls :
           (calls[c].task = t /\ IsCameraDetail(calls[c].value)) =>
             /\ calls[c].value.lat = FirstMatch(PageOf(t).divs, LatLabel)
             /\ calls[c].value.lon = FirstMatch(PageOf(t).divs, LonLabel)

\* Nothing of App is scheduled: no load is running and no debounce timeout
\* waits, so that only a further move of the map makes App act again.
AppAtRest == map # Null /\ ~isLoading /\ load.pc = "idle" /\ loadTimer # "armed"

\* C17: a slow detail lookup does not block later moves of the map: when a
\* move ends and its debounce timeout runs while a detail lookup of an
\* earlier loadCamerasInView is pending (at a zoom that loads cameras), a
\* list load for the new view follows, so App never comes to rest with that
\* load still owed.
C17_MoveDuringLookupStillLoads == AppAtRest => ~owed

\* Exactly one interval runs and refreshTimer names it.
Polling == refreshTimer # Null /\ intervals = {refreshTimer.id}

\* C18: a dialog opened for a camera with a liveFeedUrl shows the live feed
\* and runs no refresh timer; when the image then fails to load, the error
\* handler is removed, the image is given the snapshot URL of that camera
\* and polling starts, at most once per opening; a dialog opened for a
\* camera without a liveFeedUrl shows the snapshot and polls at once.
C18_LiveFeedThenFallbackOnce ==
  /\ [](fallbacks <= 1)
  /\ [][/\ did' = "show" =>
             IF shown'.liveFeedUrl # << >>
               THEN /\ dialogImage'.src = shown'.liveFeedUrl
                    /\ dialogImage'.onerror # Null
                    /\ refreshTimer' = Null
                    /\ intervals' = {}
               ELSE /\ IsSnapshotOf(dialogImage'.src, shown'.id)
                    /\ dialogImage'.onerror = Null
                    /\ Polling'
        /\ (did' = "error" /\ dialogImage.onerror # Null) =>
             /\ dialogImage'.onerror = Null
             /\ IsSnapshotOf(dialogImage'.src, shown.id)
             /\ Polling'
             /\ fallbacks = 0]_vars

\* The live feed of the open dialog has failed: the image shows the
\* snapshot of the camera, the handler is gone and the interval runs.
C18_Witness ==
  /\ did = "error"
  /\ overlayActive
  /\ shown.liveFeedUrl # << >>
  /\ currentCamera = shown
  /\ fallbacks = 1
  /\ dialogImage.onerror = Null
  /\ IsSnapshotOf(dialogImage.src, shown.id)
  /\ Polling

\* C19: whenever the dialog is open, currentCamera is the camera most
\* recently passed to showCameraDialog and the image source is not blank,
\* whatever the order of showCameraDialog, closeCameraDialog and the
\* cleanup timeouts of closeCameraDialog.
C19_OpenDialogShowsItsCamera ==
  overlayActive => (currentCamera = shown /\ dialogImage.src # << >>)

\* C20: at most one refresh interval runs, and only while the dialog is
\* open; refreshTimer names it; an error handler is on the image only while
\* the dialog is open, and it is the handler of the camera most recently
\* passed to showCameraDialog, so that an error delivered after a close
\* starts no polling and one delivered after another camera was opened
\* starts none for the old camera.
C20_OneTimerWhileOpen ==
  /\ Cardinality(intervals) <= 1
  /\ intervals # {} => overlayActive
  /\ intervals # {} => Polling
  /\ refreshTimer # Null => Polling
  /\ dialogImage.onerror # Null =>
       (overlayActive /\ dialogImage.onerror.camera = shown)

\* The live feed failed after the dialog was closed (the image still had
\* its src): no handler ran and no interval runs.
C20_Witness ==
  /\ did = "error"
  /\ ~overlayActive
  /\ shown # Null
  /\ dialogImage.src = shown.liveFeedUrl
  /\ dialogImage.src # << >>
  /\ intervals = {}
  /\ refreshTimer = Null

=============================================================================
